---- MODULE Spec2Model ----
(***************************************************************************)
(* Voting / finalization core of SmartBoard.                               *)
(*                                                                         *)
(* Shared state: the SQL store (tables proposals and votes), and the two   *)
(* in-memory NeoClient instances the backend keeps: the one of main.py     *)
(* (get_neo_client: create_proposal, finalize_proposal, get_proposal) and  *)
(* the one of vote_service.py (_get_neo_client: vote).                     *)
(*                                                                         *)
(* Execution contexts: "http" is the asyncio event loop (the route         *)
(* handlers are `async def` bodies without an await, so one handler runs   *)
(* at a time, and the listener's poll runs on the same loop); "agent" is   *)
(* the SimulatedVotingAgent thread.  Each context owns a SQLAlchemy        *)
(* session whose identity map (cache) keeps the column values read when    *)
(* the row was loaded, until the session commits.  A step of a context is  *)
(* one access to shared state; the two contexts interleave step by step.   *)
(*                                                                         *)
(* Time: the clock `now` counts voting periods (7 days).  Spec is the       *)
(* program within one instant (the clock stands still, no deadline passes);*)
(* SpecTimed lets the clock advance between any two steps.  The agent's    *)
(* interval (2 s by default, 0.5 s at least) is below the resolution of    *)
(* this clock and counts as 0, except in SpecInterval, where the agent is  *)
(* configured with an interval of one voting period.                       *)
(*                                                                         *)
(* SpecLedger drives the two ledger backends, NeoClient's simulation and   *)
(* the contract of src/contracts/proposal_contract.py, with the same calls.*)
(*                                                                         *)
(* SpecTick, SpecStop and SpecInterval start with two proposals submitted, *)
(* for what the agent does within one tick and from tick to tick.          *)
(* SpecHttp is the deployment without the agent and the listener           *)
(* (SIMULATED_VOTING_ENABLED and DEMO_MODE at their defaults).             *)
(* SpecListener gives the listener a ledger client that answers with       *)
(* strings of the contract's format (NeoClient itself answers "" outside   *)
(* simulation mode, and the listener does nothing in simulation mode).     *)
(* SpecCodec applies the encoding and the decoding of ledger records to    *)
(* records and strings drawn from bounded sets.                            *)
(* SpecCreate creates one proposal more than Spec, through the route and   *)
(* through the Storacha sync, with restarts, and lets real voters vote.    *)
(* SpecService is the life of the two background loops: start() and stop() *)
(* of the listener and of the agent, and shutdown_event.                   *)
(* SpecProgress is the agent alone under fair scheduling of its thread,    *)
(* with a commit that may fail once.                                       *)
(***************************************************************************)
EXTENDS Integers, FiniteSets, Sequences, TLC

\* ----------------------------------------------------------------- bounds
MaxProposals == 1
NumRealVoters == 1
\* SIMULATED_VOTING_MAX_VOTES_PER_PROPOSAL (configuration; 200 by default)
MaxVotesPerProposal == 2

VARIABLES
    proposals,        \* table proposals: id -> row (NoRow: no such row)
    votes,            \* table votes: set of rows
    neo_client,       \* main.py's NeoClient (simulation state)
    vote_neo_client,  \* vote_service.py's NeoClient (simulation state)
    env,              \* DEMO_MODE / credentials of this deployment
    http,             \* the request the event loop is handling
    agent,            \* the SimulatedVotingAgent thread
    resp,             \* outcome of the last call of each context
    now,              \* the clock (time.time() / the chain's block time), in
                      \* units of one voting period
    ledger,           \* a simulation client and a deployed contract, given
                      \* the same calls (the two ledger backends side by side)
    listener,         \* what the listener's last poll was answered by its
                      \* ledger client, and where its commits failed
    codec,            \* the last conversion between a ledger record and its
                      \* wire string
    service,          \* the service's life: the listener's is_running flag and
                      \* the coroutines of its start(), the calls of
                      \* startup_event and shutdown_event, the commits that
                      \* failed, and the outcome notifications triggered for
                      \* each proposal
    hist              \* history, per context, of its current or last vote
                      \* submission: the proposal, the stored tally sum and row
                      \* count when it began, whether the pair was new then,
                      \* whether another submission for the pair was in flight,
                      \* and the <<proposal, address>> pairs of the votes the
                      \* context has recorded so far

vars == <<proposals, votes, neo_client, vote_neo_client, env, http, agent, resp,
          now, ledger, listener, codec, service, hist>>

\* Proposal ids: MaxProposals are created during a run; one more row may be in
\* the store when the process starts (SpecTick, SpecListener).
ProposalIds == 1..(MaxProposals + 1)
\* The proposal ids the HTTP callers ask for
RequestIds == 1..MaxProposals
Contexts == {"http", "agent"}

\* ------------------------------------------------------------- data model
\* models.Proposal, the columns the core reads and writes; on_chain_id 0 is
\* NULL (`proposal.on_chain_id or proposal.id` treats both alike).
NoRow ==
    [status |-> "absent", yes_votes |-> 0, no_votes |-> 0, on_chain_id |-> 0,
     deadline |-> 0]

NewProposalRow(oc, deadline) ==
    [status |-> "active", yes_votes |-> 0, no_votes |-> 0, on_chain_id |-> oc,
     deadline |-> deadline]

\* models.Vote
VoteRow(p, a, c) == [proposal_id |-> p, voter_address |-> a, vote |-> c]

\* Voter addresses: <<0, k>> is the k-th real wallet address, <<p, i>> with
\* p > 0 is the string "sim-voter-{p}-{i:05d}".
RealAddrs == {<<0, k>> : k \in 1..NumRealVoters}
SimAddr(p, i) == <<p, i>>
\* What an HTTP caller may send as voter_address: any string, among them one
\* that the agent generates as well.
HttpAddrs == RealAddrs \cup {SimAddr(1, 1)}

\* NeoClient.__init__: the simulation state of a new client
NoRecord ==
    [exists |-> FALSE, deadline |-> 0, yes_votes |-> 0, no_votes |-> 0,
     finalized |-> FALSE]
NewNeoClient ==
    [simulated_proposals |-> [i \in ProposalIds |-> NoRecord],
     simulated_votes |-> {},
     next_proposal_id |-> 1]

\* `proposal.on_chain_id or proposal.id`
RemoteId(p, row) == IF row.on_chain_id # 0 THEN row.on_chain_id ELSE p

NoAddr == <<0, 0>>
NoResp == [op |-> "none", code |-> 0, detail |-> "none", pid |-> 0, voter |-> NoAddr]
NoHist ==
    [pid |-> 0, sum0 |-> 0, rows0 |-> 0, fresh |-> FALSE, rival |-> FALSE,
     recorded |-> {}]

NoCache == [i \in ProposalIds |-> NoRow]

IdleHttp ==
    [pc |-> "idle", pid |-> 0, voter |-> NoAddr, choice |-> 0,
     cache |-> NoCache, called_ledger |-> FALSE]

\* --------------------------------------------------------------- the store
Exists(p) == proposals[p].status # "absent"

\* Faulty variant of ExistingVote (sensitivity of C6): the duplicate query
\* finds nothing
ExistingVote_FindsNothing(p, a) == FALSE

\* db.query(DBVote).filter(proposal_id == p, voter_address == a).first()
ExistingVote(p, a) ==
    \E v \in votes : v.proposal_id = p /\ v.voter_address = a

\* models.Vote.__table_args__, the unique index idx_vote_proposal_voter: an
\* INSERT of a second row for the pair fails
UniqueViolation(p, a) ==
    \E v \in votes : v.proposal_id = p /\ v.voter_address = a

VotesOf(p) == {v \in votes : v.proposal_id = p}
PairRows(p, a) == {v \in votes : v.proposal_id = p /\ v.voter_address = a}

\* NeoClient._simulate_vote: `vote_key in self.simulated_votes`
VoteKeyIn(client, rid, a) ==
    \E k \in client.simulated_votes : k.proposal_id = rid /\ k.voter = a

\* ------------------------------------------- the contract (neo3-boa, Neo N3)
\* Contract storage: the proposal count, the proposal strings
\* "title|ipfs_hash|deadline|confidence|yes_votes|no_votes|finalized" kept as
\* <<deadline, yes_votes, no_votes, finalized>> (<<>> is the empty value of a
\* key never put), and the vote entries with the bytes stored for each.
NewContract ==
    [proposal_count |-> 0,
     proposals |-> [i \in ProposalIds |-> <<>>],
     votes |-> {}]

\* The bytes storage.put keeps for an integer value: the Neo VM's byte string
\* of an integer, which is empty for 0.
IntToBytes(n) == IF n = 0 THEN <<>> ELSE <<n>>

\* storage.get(VOTE_PREFIX + proposal_id + voter): the stored bytes, empty when
\* the key was never put
StorageGetVote(chain, proposal_id, voter) ==
    IF \E e \in chain.votes : e.proposal_id = proposal_id /\ e.voter = voter
    THEN (CHOOSE e \in chain.votes :
              e.proposal_id = proposal_id /\ e.voter = voter).value
    ELSE <<>>

\* storage.put(VOTE_PREFIX + proposal_id + voter, choice)
StoragePutVote(chain, proposal_id, voter, choice) ==
    [chain EXCEPT
        !.votes = {e \in @ : ~(e.proposal_id = proposal_id /\ e.voter = voter)}
                    \cup {[proposal_id |-> proposal_id, voter |-> voter,
                           value |-> IntToBytes(choice)]}]

\* proposal_contract.create_proposal: the new state and the returned id
ContractCreateProposal(chain, deadline) ==
    LET proposal_id == chain.proposal_count + 1
    IN  [ret |-> proposal_id,
         st |-> [chain EXCEPT !.proposal_count = proposal_id,
                              !.proposals[proposal_id] = <<deadline, 0, 0, 0>>]]

\* proposal_contract.vote, called with the voter's witness, at block time t
ContractVote(chain, t, proposal_id, voter, choice) ==
    LET parts == chain.proposals[proposal_id]
    IN  IF Len(parts) = 0
        THEN [ret |-> FALSE, st |-> chain]
        ELSE IF t > parts[1] \/ parts[4] = 1
        THEN [ret |-> FALSE, st |-> chain]
        ELSE IF Len(StorageGetVote(chain, proposal_id, voter)) > 0
        THEN [ret |-> FALSE, st |-> chain]
        ELSE [ret |-> TRUE,
              st |-> [StoragePutVote(chain, proposal_id, voter, choice) EXCEPT
                         !.proposals[proposal_id] =
                             IF choice = 1
                             THEN [parts EXCEPT ![2] = @ + 1]
                             ELSE [parts EXCEPT ![3] = @ + 1]]]

\* proposal_contract.finalize_proposal at block time t
ContractFinalizeProposal(chain, t, proposal_id) ==
    LET parts == chain.proposals[proposal_id]
    IN  IF Len(parts) = 0
        THEN [ret |-> FALSE, st |-> chain]
        ELSE IF parts[4] = 1
        THEN [ret |-> FALSE, st |-> chain]
        ELSE IF t < parts[1]
        THEN [ret |-> FALSE, st |-> chain]
        ELSE [ret |-> TRUE,
              st |-> [chain EXCEPT !.proposals[proposal_id] =
                                      [parts EXCEPT ![4] = 1]]]

\* proposal_contract.get_proposal
ContractGetProposal(chain, proposal_id) == chain.proposals[proposal_id]

\* proposal_contract.has_voted: `len(get(vote_key)) > 0`
ContractHasVoted(chain, proposal_id, voter) ==
    Len(StorageGetVote(chain, proposal_id, voter)) > 0

\* The two backends and the outcome of the last call given to both
\* (ok: the call was accepted; ret: what it returned, as a sequence)
NoCall == [op |-> "none", pid |-> 0, voter |-> NoAddr, choice |-> 0,
           sim_ok |-> TRUE, sim_ret |-> <<>>,
           chain_ok |-> TRUE, chain_ret |-> <<>>]
NewLedger == [sim |-> NewNeoClient, chain |-> NewContract, call |-> NoCall]

\* --------------------------------------------- ledger records on the wire
\* A string is the sequence of its characters.
Digits == <<"0", "1", "2", "3", "4", "5", "6", "7", "8", "9">>
IsDigit(ch) == \E d \in 1..10 : Digits[d] = ch
DigitVal(ch) == (CHOOSE d \in 1..10 : Digits[d] = ch) - 1

\* Python str(n), f"{n}" for an int: the decimal numeral
RECURSIVE StrNat(_)
StrNat(n) ==
    IF n < 10 THEN <<Digits[n + 1]>>
    ELSE StrNat(n \div 10) \o <<Digits[(n % 10) + 1]>>
PyStr(n) == IF n < 0 THEN <<"-">> \o StrNat(0 - n) ELSE StrNat(n)

\* Python int(s): surrounding whitespace is stripped, one sign may lead, then
\* come decimal digits; any other string raises ValueError.
RECURSIVE LStrip(_)
LStrip(s) == IF s # <<>> /\ Head(s) = " " THEN LStrip(Tail(s)) ELSE s
RECURSIVE RStrip(_)
RStrip(s) ==
    IF s # <<>> /\ s[Len(s)] = " " THEN RStrip(SubSeq(s, 1, Len(s) - 1)) ELSE s
Unsigned(s) ==
    LET t == RStrip(LStrip(s))
    IN  IF t # <<>> /\ Head(t) \in {"+", "-"} THEN Tail(t) ELSE t
RECURSIVE NatOf(_)
NatOf(u) ==
    IF u = <<>> THEN 0
    ELSE 10 * NatOf(SubSeq(u, 1, Len(u) - 1)) + DigitVal(u[Len(u)])
\* int(s) does not raise
IsInt(s) ==
    LET u == Unsigned(s)
    IN  u # <<>> /\ \A i \in 1..Len(u) : IsDigit(u[i])
\* the value of int(s) when it does not raise
PyInt(s) ==
    IF Head(LStrip(s)) = "-" THEN 0 - NatOf(Unsigned(s)) ELSE NatOf(Unsigned(s))

\* Faulty variant of Split (sensitivity of C27): a field separator ends the
\* string
Split_StopsAtSeparator(s) ==
    IF \A i \in 1..Len(s) : s[i] # "|" THEN <<s>>
    ELSE LET k == CHOOSE i \in 1..Len(s) :
                      s[i] = "|" /\ \A j \in 1..(i - 1) : s[j] # "|"
         IN  <<SubSeq(s, 1, k - 1)>>

\* s.split('|')
RECURSIVE Split(_)
Split(s) ==
    IF \A i \in 1..Len(s) : s[i] # "|" THEN <<s>>
    ELSE LET k == CHOOSE i \in 1..Len(s) :
                      s[i] = "|" /\ \A j \in 1..(i - 1) : s[j] # "|"
         IN  <<SubSeq(s, 1, k - 1)>> \o Split(SubSeq(s, k + 1, Len(s)))

\* '|'.join(parts)
RECURSIVE Join(_)
Join(parts) ==
    IF parts = <<>> THEN <<>>
    ELSE IF Len(parts) = 1 THEN parts[1]
    ELSE parts[1] \o <<"|">> \o Join(Tail(parts))

\* A ledger record: what create_proposal stores, with the tallies and the
\* finalized flag
WireRecord(title, ipfs_hash, deadline, confidence, yes_votes, no_votes, finalized) ==
    [title |-> title, ipfs_hash |-> ipfs_hash, deadline |-> deadline,
     confidence |-> confidence, yes_votes |-> yes_votes, no_votes |-> no_votes,
     finalized |-> finalized]

\* NeoClient.get_proposal, the f-string of lines 153-161 (the contract builds
\* the same string, create_proposal line 62 and vote lines 125-127)
EncodeProposal(r) ==
    r.title \o <<"|">> \o r.ipfs_hash \o <<"|">> \o PyStr(r.deadline) \o <<"|">>
        \o PyStr(r.confidence) \o <<"|">> \o PyStr(r.yes_votes) \o <<"|">>
        \o PyStr(r.no_votes) \o <<"|">> \o PyStr(IF r.finalized THEN 1 ELSE 0)

\* The decoding the readers of the string do: split, the field count, and
\* int() on the fields they convert: finalized, yes_votes, no_votes (listener
\* lines 87-96; contract vote lines 95-100, 116-117) and deadline (contract
\* line 99).  No reader converts confidence: it stays text.
NotDecoded ==
    [ok |-> FALSE, title |-> <<>>, ipfs_hash |-> <<>>, deadline |-> 0,
     confidence |-> <<>>, yes_votes |-> 0, no_votes |-> 0, finalized |-> 0]
DecodeProposal(s) ==
    LET parts == Split(s)
    IN  IF Len(parts) < 7 THEN NotDecoded
        ELSE IF \E i \in {3, 5, 6, 7} : ~IsInt(parts[i]) THEN NotDecoded
        ELSE [ok |-> TRUE, title |-> parts[1], ipfs_hash |-> parts[2],
              deadline |-> PyInt(parts[3]), confidence |-> parts[4],
              yes_votes |-> PyInt(parts[5]), no_votes |-> PyInt(parts[6]),
              finalized |-> PyInt(parts[7])]

\* The string written back from decoded fields (contract vote lines 125-127:
\* str() of the converted fields, the others as they were, joined)
ReEncode(d) ==
    Join(<<d.title, d.ipfs_hash, PyStr(d.deadline), d.confidence,
           PyStr(d.yes_votes), PyStr(d.no_votes), PyStr(d.finalized)>>)

NoCodec ==
    [op |-> "none", record |-> WireRecord(<<>>, <<>>, 0, 0, 0, 0, FALSE),
     wire |-> <<>>, decoded |-> NotDecoded, reencoded |-> <<>>]

\* What a ledger client answers get_proposal with: it raises, or it returns
\* a string ("" when it has no record)
Answer(raises, data) == [raises |-> raises, data |-> data]
NoAnswer == Answer(FALSE, <<>>)

\* The listener's last poll: the answer it got for each proposal it asked
\* about, and the proposals whose commit failed
NoPoll ==
    [answers |-> [p \in ProposalIds |-> NoAnswer],
     commit_fails |-> [p \in ProposalIds |-> FALSE]]

\* The calls of BlockchainListener.start() in one run
MaxStarts == 2
Tasks == 1..MaxStarts

\* The service before startup_event: the listener as __init__ leaves it
\* (is_running False, no coroutine of start() yet: "none"), no call made, no
\* commit failed, no notification triggered.  A coroutine of start() is
\* "sleep" (suspended in asyncio.sleep between two polls), "returned" (start()
\* found the listener running and returned) or "ended" (it left the loop);
\* polled holds the coroutines that have polled since start() last set
\* is_running.
NewService ==
    [is_running |-> FALSE,
     tasks |-> [k \in Tasks |-> "none"],
     polled |-> {},
     shutdown |-> FALSE,
     last_call |-> "none",
     commit_failures |-> 0,
     notified |-> [p \in ProposalIds |-> 0]]

\* startup_event lines 217-222: with DEMO_MODE off the listener is created
\* and its start() scheduled; the coroutine sets is_running, polls and sleeps
StartedService(mode) ==
    IF mode = "demo" THEN NewService
    ELSE [NewService EXCEPT !.is_running = TRUE, !.tasks[1] = "sleep",
                            !.polled = {1}]

\* `max(interval_seconds, 0.5)`: half a second, which is below the resolution
\* of the clock (one voting period)
MinInterval == 0

\* SimulatedVotingAgent.__init__ line 45
ClampInterval(interval_seconds) ==
    IF interval_seconds > MinInterval THEN interval_seconds ELSE MinInterval

\* SimulatedVotingAgent.__init__ and start: the thread is at the test of its
\* loop (pc "idle": at `while not self._stop_event.is_set()`, or asleep before
\* it), the stop event is clear, _last_vote_at is empty, the counters are 0.
AgentWith(interval_seconds) ==
    [pc |-> "idle", pid |-> 0, voter |-> NoAddr, choice |-> 0,
     cache |-> NoCache, called_ledger |-> FALSE,
     queue |-> <<>>, vote_counters |-> [i \in ProposalIds |-> 0],
     now |-> 0,
     stop_event |-> FALSE,
     last_vote_at |-> [i \in ProposalIds |-> <<>>],
     interval_seconds |-> ClampInterval(interval_seconds)]

\* The agent of startup_event: SIMULATED_VOTING_INTERVAL_SECONDS is 2.0
\* unless configured, below the resolution of the clock as well
NewAgent == AgentWith(0)

\* ------------------------------------------------------------------- Init
Init ==
    /\ proposals = [i \in ProposalIds |-> NoRow]
    /\ votes = {}
    /\ neo_client = NewNeoClient
    /\ vote_neo_client = NewNeoClient
    /\ env \in {"demo", "nocreds", "real"}
    /\ http = IdleHttp
    /\ agent = NewAgent
    /\ now = 0
    /\ ledger = NewLedger
    /\ listener = NoPoll
    /\ codec = NoCodec
    /\ service = StartedService(env)
    /\ resp = [c \in Contexts |-> NoResp]
    /\ hist = [c \in Contexts |-> NoHist]

\* ------------------------------------------------------ contexts, helpers
Loc(ctx) == IF ctx = "http" THEN http ELSE agent
Other(ctx) == IF ctx = "http" THEN "agent" ELSE "http"

Sum(row) == row.yes_votes + row.no_votes

\* The program counters of a vote submission: "vote" is the route handler
\* before process_vote, the pv_ ones are inside process_vote.
VotePcs == {"vote", "pv_local", "pv_ledger", "pv_ledger_write", "pv_commit"}

InFlight(ctx, p, a) ==
    /\ Loc(ctx).pc \in VotePcs
    /\ Loc(ctx).pid = p
    /\ Loc(ctx).voter = a

\* history only: a submission of ctx for (p, a) begins
BeginHist(ctx, p, a) ==
    LET clash == InFlight(Other(ctx), p, a)
    IN  hist' = [c \in Contexts |->
                    IF c = ctx
                    THEN [pid |-> p,
                          sum0 |-> Sum(proposals[p]),
                          rows0 |-> Cardinality(VotesOf(p)),
                          fresh |-> PairRows(p, a) = {} /\ proposals[p].status = "active",
                          rival |-> clash,
                          recorded |-> hist[c].recorded]
                    ELSE [hist[c] EXCEPT !.rival = @ \/ clash]]

Goto(ctx, pc) ==
    /\ http' = IF ctx = "http" THEN [http EXCEPT !.pc = pc] ELSE http
    /\ agent' = IF ctx = "agent" THEN [agent EXCEPT !.pc = pc] ELSE agent
    /\ UNCHANGED resp

\* The end of a vote submission.
\* http (main.py vote / vote_nested): the response leaves the handler, after
\*   db.rollback() on an exception; the request's session is closed.
\* agent (_tick, the try around process_vote): on success the counter of the
\*   proposal grows and the commit has expired the session's objects; a 400
\*   is swallowed, another exception is logged, and the loop goes on with the
\*   session as it is.  After a failed flush (IntegrityError) the session is
\*   left rolled back and unusable until Session.rollback(), which _tick never
\*   calls: the next attribute load raises out of the loop and the tick ends.
EndVote(ctx, code, detail) ==
    /\ resp' = [resp EXCEPT ![ctx] =
                    [op |-> "vote", code |-> code, detail |-> detail,
                     pid |-> Loc(ctx).pid, voter |-> Loc(ctx).voter]]
    /\ http' = IF ctx = "http" THEN IdleHttp ELSE http
    /\ agent' =
          IF ctx = "agent"
          THEN [agent EXCEPT
                  !.pc = "tick_loop",
                  !.pid = 0, !.voter = NoAddr, !.choice = 0,
                  !.called_ledger = FALSE,
                  !.queue = IF detail \in {"integrity", "commit_error"}
                            THEN <<>> ELSE Tail(@),
                  !.cache = IF code = 200 \/ detail \in {"integrity", "commit_error"}
                            THEN NoCache ELSE @,
                  !.last_vote_at[agent.pid] =
                        IF code = 200 THEN <<agent.now>> ELSE @,
                  !.vote_counters[agent.pid] = IF code = 200 THEN @ + 1 ELSE @]
          ELSE agent

\* ------------------------------------------------------------ NeoClient
IsSimulated == env \in {"demo", "nocreds"}

\* NeoClient has no has_voted method: the call in process_vote raises
\* AttributeError whatever the ledger holds.
HasVoted(client, rid, a) == "AttributeError"

\* NeoClient._simulate_vote after the duplicate check: record the choice and
\* count it on the record, when this client has the record.
SimulateVote(client, rid, a, c) ==
    [client EXCEPT
        !.simulated_votes =
            {k \in @ : ~(k.proposal_id = rid /\ k.voter = a)}
                \cup {[proposal_id |-> rid, voter |-> a, choice |-> c]},
        !.simulated_proposals[rid] =
            IF ~@.exists THEN @
            ELSE IF c = 1 THEN [@ EXCEPT !.yes_votes = @ + 1]
                 ELSE [@ EXCEPT !.no_votes = @ + 1]]

\* NeoClient._simulate_finalize
SimulateFinalize(client, rid) ==
    [client EXCEPT
        !.simulated_proposals[rid] =
            IF @.exists THEN [@ EXCEPT !.finalized = TRUE] ELSE @]

\* Faulty variant of SimulateCreateProposal (sensitivity of C26): the counter
\* is not advanced
SimulateCreateProposal_SameId(client, deadline) ==
    [client EXCEPT
        !.simulated_proposals[client.next_proposal_id] =
            [exists |-> TRUE, deadline |-> deadline, yes_votes |-> 0,
             no_votes |-> 0, finalized |-> FALSE]]

\* NeoClient._simulate_create_proposal
SimulateCreateProposal(client, deadline) ==
    [client EXCEPT
        !.next_proposal_id = @ + 1,
        !.simulated_proposals[client.next_proposal_id] =
            [exists |-> TRUE, deadline |-> deadline, yes_votes |-> 0,
             no_votes |-> 0, finalized |-> FALSE]]

\* NeoClient.get_proposal: the record as a string, "" when the client has no
\* record; outside simulation mode it returns "" always.  (Title, hash and
\* confidence of a simulated record, not kept here, are written as "t", "h", 0.)
GetProposal(client, rid) ==
    IF IsSimulated /\ client.simulated_proposals[rid].exists
    THEN LET rec == client.simulated_proposals[rid]
         IN  EncodeProposal(WireRecord(<<"t">>, <<"h">>, rec.deadline, 0,
                                       rec.yes_votes, rec.no_votes, rec.finalized))
    ELSE <<>>

\* ------------------------------------------------------ proposal creation
\* `deadline = int(time.time()) + (7 * 24 * 60 * 60)`: the clock's unit is this
\* period
VotingPeriod == 1

NextLocalId == Cardinality({p \in ProposalIds : Exists(p)}) + 1

\* main.py submit_memo / submit_proposal_direct: create on main.py's client,
\* then insert the row with the id the client returned; `rows` bounds the
\* rows of the run.
SubmitMemoUpTo(rows) ==
    /\ http.pc = "idle"
    /\ NextLocalId <= rows
    /\ neo_client' = SimulateCreateProposal(neo_client, now + VotingPeriod)
    /\ proposals' = [proposals EXCEPT
                        ![NextLocalId] =
                            NewProposalRow(neo_client.next_proposal_id,
                                           now + VotingPeriod)]
    /\ UNCHANGED <<votes, vote_neo_client, env, now, ledger, listener, codec, service, http, agent, resp, hist>>

SubmitMemo == SubmitMemoUpTo(MaxProposals)

\* storacha_sync._create_proposal_in_db: create on a NeoClient() made for this
\* one call (its first id is 1), then insert the row.
SyncCreateUpTo(rows) ==
    /\ NextLocalId <= rows
    /\ proposals' = [proposals EXCEPT
                        ![NextLocalId] =
                            NewProposalRow(NewNeoClient.next_proposal_id,
                                           now + VotingPeriod)]
    /\ UNCHANGED <<votes, neo_client, vote_neo_client, env, now, ledger, listener, codec, service, http, agent, resp, hist>>

SyncCreate == SyncCreateUpTo(MaxProposals)

\* ------------------------------------------------------------ process_vote
\* Faulty variant of NotActive (sensitivity of C7): the status test lets
\* every row pass
NotActive_NeverRefuses(row) == FALSE

\* The routes' status test (`proposal.status != "active"`)
NotActive(row) == row.status # "active"

\* process_vote, "Update tally": the session writes the column it changed,
\* with the value computed from the copy it holds.
Persist(dbrow, cached, c) ==
    IF c = 1
    THEN [dbrow EXCEPT !.yes_votes = cached.yes_votes + 1]
    ELSE [dbrow EXCEPT !.no_votes = cached.no_votes + 1]

\* Faulty variant of ProcessVoteLocal (sensitivity of C10): the ledger vote
\* is submitted before the duplicate check
ProcessVoteLocal_SubmitsFirst(ctx) ==
    /\ Loc(ctx).pc = "pv_local"
    /\ LET l == Loc(ctx)
           rid == RemoteId(l.pid, l.cache[l.pid])
       IN  IF ExistingVote(l.pid, l.voter)
           THEN /\ EndVote(ctx, 400, "duplicate")
                /\ vote_neo_client' = SimulateVote(vote_neo_client, rid, l.voter, l.choice)
           ELSE /\ Goto(ctx, "pv_ledger")
                /\ UNCHANGED vote_neo_client
    /\ UNCHANGED <<proposals, votes, neo_client, env, now, ledger, listener, codec, service, hist>>

\* Faulty variant of ProcessVoteLocal (sensitivity of C33): an exception of
\* the on-chain check ends the submission
ProcessVoteLocal_FailClosed(ctx) ==
    /\ Loc(ctx).pc = "pv_local"
    /\ LET l == Loc(ctx)
           rid == RemoteId(l.pid, l.cache[l.pid])
       IN  IF ExistingVote(l.pid, l.voter)
           THEN EndVote(ctx, 400, "duplicate")
           ELSE IF HasVoted(vote_neo_client, rid, l.voter) = "true"
           THEN EndVote(ctx, 400, "duplicate_on_chain")
           ELSE IF HasVoted(vote_neo_client, rid, l.voter) = "false"
           THEN Goto(ctx, "pv_ledger")
           ELSE EndVote(ctx, 500, "has_voted_error")
    /\ UNCHANGED <<proposals, votes, neo_client, vote_neo_client, env, now, ledger, listener, codec, service, hist>>

\* process_vote lines 32-68: local duplicate check, then the on-chain check,
\* whose exceptions other than the 400 are swallowed.
ProcessVoteLocal(ctx) ==
    /\ Loc(ctx).pc = "pv_local"
    /\ LET l == Loc(ctx)
           rid == RemoteId(l.pid, l.cache[l.pid])
       IN  IF ExistingVote(l.pid, l.voter)
           THEN EndVote(ctx, 400, "duplicate")
           ELSE IF HasVoted(vote_neo_client, rid, l.voter) = "true"
           THEN EndVote(ctx, 400, "duplicate_on_chain")
           ELSE Goto(ctx, "pv_ledger")
    /\ UNCHANGED <<proposals, votes, neo_client, vote_neo_client, env, now, ledger, listener, codec, service, hist>>

\* Faulty variant of VoteLedgerRaised (sensitivity of C9): the row and the
\* tally were added before the ledger call and are committed although it raised
VoteLedgerRaised_Persists(ctx) ==
    /\ EndVote(ctx, 500, "ledger_error")
    /\ votes' = votes \cup {VoteRow(Loc(ctx).pid, Loc(ctx).voter, Loc(ctx).choice)}
    /\ proposals' = [proposals EXCEPT
                        ![Loc(ctx).pid] =
                            Persist(@, Loc(ctx).cache[Loc(ctx).pid], Loc(ctx).choice)]
    /\ UNCHANGED vote_neo_client

\* The caller's handling of an exception of neo_client.vote: main.py rolls
\* the session back and answers 500; _tick logs it.  Nothing is pending in the
\* session at that point.
VoteLedgerRaised(ctx) ==
    /\ EndVote(ctx, 500, "ledger_error")
    /\ UNCHANGED <<proposals, votes, vote_neo_client>>

\* process_vote line 71, NeoClient._simulate_vote lines 209-211: the duplicate
\* test on the ledger's vote map.
LedgerVoteCheck(ctx) ==
    /\ Loc(ctx).pc = "pv_ledger"
    /\ LET l == Loc(ctx)
           rid == RemoteId(l.pid, l.cache[l.pid])
       IN  IF VoteKeyIn(vote_neo_client, rid, l.voter)
           THEN VoteLedgerRaised(ctx)
           ELSE /\ http' = IF ctx = "http"
                           THEN [http EXCEPT !.pc = "pv_ledger_write",
                                             !.called_ledger = TRUE]
                           ELSE http
                /\ agent' = IF ctx = "agent"
                            THEN [agent EXCEPT !.pc = "pv_ledger_write",
                                               !.called_ledger = TRUE]
                            ELSE agent
                /\ UNCHANGED <<proposals, votes, vote_neo_client, resp>>
    /\ UNCHANGED <<neo_client, env, now, ledger, listener, codec, service, hist>>

\* NeoClient._simulate_vote lines 213-222: the write, a separate step because
\* nothing serialises the two threads between the test and the write.
LedgerVoteWrite(ctx) ==
    /\ Loc(ctx).pc = "pv_ledger_write"
    /\ LET l == Loc(ctx)
           rid == RemoteId(l.pid, l.cache[l.pid])
       IN  vote_neo_client' = SimulateVote(vote_neo_client, rid, l.voter, l.choice)
    /\ Goto(ctx, "pv_commit")
    /\ UNCHANGED <<proposals, votes, neo_client, env, now, ledger, listener, codec, service, hist>>

\* process_vote lines 77-109: db.add, the tally, db.commit as one transaction.
\* The unique index idx_vote_proposal_voter fails the INSERT of a second row
\* for the pair, and the whole transaction with it.
ProcessVoteCommit(ctx) ==
    /\ Loc(ctx).pc = "pv_commit"
    /\ LET l == Loc(ctx)
       IN  IF UniqueViolation(l.pid, l.voter)
           THEN /\ EndVote(ctx, 500, "integrity")
                /\ UNCHANGED <<proposals, votes, hist>>
           ELSE /\ votes' = votes \cup {VoteRow(l.pid, l.voter, l.choice)}
                /\ proposals' = [proposals EXCEPT
                                    ![l.pid] = Persist(@, l.cache[l.pid], l.choice)]
                /\ EndVote(ctx, 200, "ok")
                /\ hist' = [hist EXCEPT
                               ![ctx].recorded = @ \cup {<<l.pid, l.voter>>}]
    /\ UNCHANGED <<neo_client, vote_neo_client, env, now, ledger, listener, codec, service>>

\* ------------------------------------------------------- HTTP: the routes
\* A request reaches a route; get_db opens its session.
ReceiveVote(p, a, c) ==
    /\ http.pc = "idle"
    /\ http' = [IdleHttp EXCEPT !.pc = "vote", !.pid = p, !.voter = a, !.choice = c]
    /\ resp' = [resp EXCEPT !.http = NoResp]
    /\ BeginHist("http", p, a)
    /\ UNCHANGED <<proposals, votes, neo_client, vote_neo_client, env, now, ledger, listener, codec, service, agent>>

\* main.py vote lines 869-886 (vote_nested lines 923-940 are the same code)
HttpVote ==
    /\ http.pc = "vote"
    /\ IF ~Exists(http.pid)
       THEN EndVote("http", 404, "not_found")
       ELSE IF NotActive(proposals[http.pid])
       THEN EndVote("http", 400, "not_active")
       ELSE IF ExistingVote(http.pid, http.voter)
       THEN EndVote("http", 400, "duplicate")
       ELSE /\ http' = [http EXCEPT !.pc = "pv_local",
                                    !.cache[http.pid] = proposals[http.pid]]
            /\ UNCHANGED <<agent, resp>>
    /\ UNCHANGED <<proposals, votes, neo_client, vote_neo_client, env, now, ledger, listener, codec, service, hist>>

ReceiveFinalize(p) ==
    /\ http.pc = "idle"
    /\ http' = [IdleHttp EXCEPT !.pc = "finalize", !.pid = p]
    /\ resp' = [resp EXCEPT !.http = NoResp]
    /\ UNCHANGED <<proposals, votes, neo_client, vote_neo_client, env, now, ledger, listener, codec, service, agent, hist>>

EndFinalize(code, detail) ==
    /\ resp' = [resp EXCEPT !.http =
                    [op |-> "finalize", code |-> code, detail |-> detail,
                     pid |-> http.pid, voter |-> NoAddr]]
    /\ http' = IdleHttp

\* main.py finalize lines 1001-1007 (finalize_nested lines 1065-1071)
HttpFinalize ==
    /\ http.pc = "finalize"
    /\ IF ~Exists(http.pid)
       THEN EndFinalize(404, "not_found")
       ELSE IF NotActive(proposals[http.pid])
       THEN EndFinalize(400, "not_active")
       ELSE /\ http' = [http EXCEPT !.pc = "fin_ledger",
                                    !.cache[http.pid] = proposals[http.pid]]
            /\ UNCHANGED resp
    /\ UNCHANGED <<proposals, votes, neo_client, vote_neo_client, env, now, ledger, listener, codec, service, agent, hist>>

\* main.py finalize lines 1010-1013: finalize_proposal on main.py's client
FinalizeLedger ==
    /\ http.pc = "fin_ledger"
    /\ neo_client' = SimulateFinalize(neo_client,
                                      RemoteId(http.pid, http.cache[http.pid]))
    /\ http' = [http EXCEPT !.pc = "fin_commit", !.called_ledger = TRUE]
    /\ UNCHANGED <<proposals, votes, vote_neo_client, env, now, ledger, listener, codec, service, agent, resp, hist>>

\* Faulty variant of Outcome (sensitivity of C25): a tie is approved
Outcome_TieApproved(row) ==
    IF row.yes_votes >= row.no_votes THEN "approved" ELSE "rejected"

\* main.py finalize lines 1015-1019: the outcome, from the copy the session holds
Outcome(row) == IF row.yes_votes > row.no_votes THEN "approved" ELSE "rejected"

\* Faulty variant of FinalizeRaised (sensitivity of C8): the outcome is
\* committed although the ledger call raised
FinalizeRaised_Commits ==
    /\ EndFinalize(500, "ledger_error")
    /\ proposals' = [proposals EXCEPT
                        ![http.pid].status = Outcome(http.cache[http.pid])]

\* main.py finalize lines 1049-1053: an exception of the try block; the
\* session is rolled back and the caller gets a 500.
FinalizeRaised ==
    /\ EndFinalize(500, "ledger_error")
    /\ UNCHANGED proposals

\* main.py finalize lines 1026-1038: with DEMO_MODE on the handler adds the
\* background task that sends the outcome e-mails; with DEMO_MODE off it logs
\* that the listener will do it
FinalizeNotifies == env = "demo"

\* main.py finalize lines 1015-1047: the session writes the column it changed,
\* then the notification
FinalizeCommit ==
    /\ http.pc = "fin_commit"
    /\ proposals' = [proposals EXCEPT
                        ![http.pid].status = Outcome(http.cache[http.pid])]
    /\ service' = [service EXCEPT
                      !.notified[http.pid] = IF FinalizeNotifies THEN @ + 1 ELSE @]
    /\ EndFinalize(200, "ok")
    /\ UNCHANGED <<votes, neo_client, vote_neo_client, env, now, ledger, listener, codec, agent, hist>>

\* process_vote lines 104-109, the dict returned after the commit: the commit
\* has expired the session's copy, so the tallies are read from the stored row
VoteReturn(row) ==
    [success |-> TRUE, yes_votes |-> row.yes_votes, no_votes |-> row.no_votes]

\* main.py finalize lines 1036-1043, the dict returned after the commit
FinalizeReturn(row) ==
    [success |-> TRUE, status |-> row.status,
     yes_votes |-> row.yes_votes, no_votes |-> row.no_votes]

\* ------------------------------------------------------------ the listener
\* Faulty variant of ListenerStatus (sensitivity of C23): a tie is approved
ListenerStatus_TieApproved(yes_votes, no_votes) ==
    IF yes_votes >= no_votes THEN "approved" ELSE "rejected"

\* _check_for_finalized_proposals lines 98-103: the outcome, from the
\* ledger's tallies
ListenerStatus(yes_votes, no_votes) ==
    IF yes_votes > no_votes THEN "approved" ELSE "rejected"

\* _check_for_finalized_proposals lines 80-103, for one proposal and the
\* answer of get_proposal: "error" is an exception (of the call, or the
\* ValueError of int()), "skip" is nothing to do (no data, fewer than seven
\* fields, not finalized), otherwise the status to set.
ListenerOutcome(answer) ==
    IF answer.raises THEN "error"
    ELSE IF answer.data = <<>> THEN "skip"
    ELSE LET parts == Split(answer.data)
         IN  IF Len(parts) < 7 THEN "skip"
             ELSE IF ~IsInt(parts[7]) THEN "error"
             ELSE IF PyInt(parts[7]) # 1 THEN "skip"
             ELSE IF ~IsInt(parts[5]) \/ ~IsInt(parts[6]) THEN "error"
             ELSE ListenerStatus(PyInt(parts[5]), PyInt(parts[6]))

\* _check_for_finalized_proposals lines 77-126, the loop over the active
\* proposals with one session: rows is the store, broken says that a commit
\* of this session has failed.  The handler of line 122 logs and goes on
\* without Session.rollback(), so after a failed commit the session refuses
\* every further statement: each later proposal raises on its first
\* attribute load and is skipped.
RECURSIVE CheckLoop(_, _, _, _, _)
CheckLoop(queue, rows, broken, answers, commit_fails) ==
    IF queue = <<>> THEN rows
    ELSE LET p == Head(queue)
             out == IF broken THEN "error" ELSE ListenerOutcome(answers[p])
         IN  IF out \in {"approved", "rejected"}
             THEN IF commit_fails[p]
                  THEN CheckLoop(Tail(queue), rows, TRUE, answers, commit_fails)
                  ELSE CheckLoop(Tail(queue), [rows EXCEPT ![p].status = out],
                                 FALSE, answers, commit_fails)
             ELSE CheckLoop(Tail(queue), rows, broken, answers, commit_fails)

\* _check_for_finalized_proposals lines 105-120, over the same loop: the
\* proposals for which the poll calls _trigger_proposal_outcome_emails, which
\* comes after the commit and is not reached when the commit raises
RECURSIVE Notified(_, _, _, _)
Notified(queue, broken, answers, commit_fails) ==
    IF queue = <<>> THEN {}
    ELSE LET p == Head(queue)
             out == IF broken THEN "error" ELSE ListenerOutcome(answers[p])
         IN  IF out \in {"approved", "rejected"}
             THEN IF commit_fails[p]
                  THEN Notified(Tail(queue), TRUE, answers, commit_fails)
                  ELSE {p} \cup Notified(Tail(queue), FALSE, answers, commit_fails)
             ELSE Notified(Tail(queue), broken, answers, commit_fails)

\* _tick line 88 and the listener's line 73: the ids of the active
\* proposals, in id order
ActiveList ==
    SelectSeq([i \in ProposalIds |-> i], LAMBDA i : proposals[i].status = "active")

\* _check_for_finalized_proposals lines 68-129 with a client that is not
\* simulated: one poll, given the answers of get_proposal and the commits
\* that fail
CheckForFinalizedProposals(answers, commit_fails) ==
    /\ proposals' = CheckLoop(ActiveList, proposals, FALSE, answers, commit_fails)
    /\ listener' = [answers |-> answers, commit_fails |-> commit_fails]
    /\ service' = [service EXCEPT
                      !.notified = [p \in ProposalIds |->
                          IF p \in Notified(ActiveList, FALSE, answers, commit_fails)
                          THEN @[p] + 1 ELSE @[p]]]

\* What NeoClient answers the listener's get_proposal calls of one poll
ClientAnswers ==
    [p \in ProposalIds |->
        IF proposals[p].status = "active"
        THEN Answer(FALSE, GetProposal(neo_client, RemoteId(p, proposals[p])))
        ELSE NoAnswer]

\* One poll inside a coroutine of start() (line 48), which then is suspended
\* in asyncio.sleep (line 52); the poll has no await that suspends it, so it
\* is one step of the event loop.  `after` is the service after the step,
\* but for the notifications.
PollAndSleep(after) ==
    IF IsSimulated
    THEN /\ service' = after
         /\ UNCHANGED <<proposals, listener>>
    ELSE /\ proposals' = CheckLoop(ActiveList, proposals, FALSE, ClientAnswers,
                                   NoPoll.commit_fails)
         /\ listener' = [answers |-> ClientAnswers,
                         commit_fails |-> NoPoll.commit_fails]
         /\ service' = [after EXCEPT
                           !.notified = [p \in ProposalIds |->
                               IF p \in Notified(ActiveList, FALSE, ClientAnswers,
                                                 NoPoll.commit_fails)
                               THEN @[p] + 1 ELSE @[p]]]

\* BlockchainListener.start lines 39-52, the k-th call: it returns when
\* is_running is set; otherwise it sets is_running and enters the loop: the
\* first poll, then the sleep
ListenerStart(k) ==
    /\ ~service.shutdown
    /\ http.pc = "idle"
    /\ service.tasks[k] = "none"
    /\ \A j \in 1..(k - 1) : service.tasks[j] # "none"
    /\ IF service.is_running
       THEN /\ service' = [service EXCEPT !.tasks[k] = "returned"]
            /\ UNCHANGED <<proposals, listener>>
       ELSE PollAndSleep([service EXCEPT !.is_running = TRUE,
                                         !.tasks[k] = "sleep",
                                         !.polled = {k}])
    /\ UNCHANGED <<votes, neo_client, vote_neo_client, env, now, ledger, codec, http, agent, resp, hist>>

\* BlockchainListener.start lines 46-52, a coroutine wakes from its sleep:
\* `while self.is_running`, the next poll and the next sleep, or the end of
\* the loop
ListenerWake(k) ==
    /\ http.pc = "idle"
    /\ service.tasks[k] = "sleep"
    /\ IF service.is_running
       THEN PollAndSleep([service EXCEPT !.polled = @ \cup {k}])
       ELSE /\ service' = [service EXCEPT !.tasks[k] = "ended"]
            /\ UNCHANGED <<proposals, listener>>
    /\ UNCHANGED <<votes, neo_client, vote_neo_client, env, now, ledger, codec, http, agent, resp, hist>>

\* BlockchainListener.stop lines 54-57
ListenerStop ==
    /\ service.is_running
    /\ service' = [service EXCEPT !.is_running = FALSE]
    /\ UNCHANGED <<proposals, votes, neo_client, vote_neo_client, env, now, ledger, listener, codec, http, agent, resp, hist>>

\* BlockchainListener._check_for_finalized_proposals: started when DEMO_MODE
\* is off (startup_event), a coroutine of the event loop; it returns at once
\* when the client is simulated.
ListenerPoll ==
    /\ env # "demo"
    /\ http.pc = "idle"
    /\ IF IsSimulated
       THEN UNCHANGED <<proposals, listener, service>>
       ELSE CheckForFinalizedProposals(
                [p \in ProposalIds |->
                    IF proposals[p].status = "active"
                    THEN Answer(FALSE, GetProposal(neo_client,
                                                   RemoteId(p, proposals[p])))
                    ELSE NoAnswer],
                [p \in ProposalIds |-> FALSE])
    /\ UNCHANGED <<votes, neo_client, vote_neo_client, env, now, ledger, codec, http, agent, resp, hist>>

\* --------------------------------------------------- SimulatedVotingAgent
\* _generate_voter_address
GenerateVoterAddress(p, current_votes) ==
    LET next_index ==
            (IF agent.vote_counters[p] > current_votes
             THEN agent.vote_counters[p] ELSE current_votes) + 1
    IN  SimAddr(p, next_index)

\* Faulty variant of RunLoop (sensitivity of C22): the loop does not test
\* the stop event
RunLoop_IgnoresStop ==
    /\ agent.pc = "idle"
    /\ agent' = [agent EXCEPT !.pc = "tick"]
    /\ UNCHANGED <<proposals, votes, neo_client, vote_neo_client, env, now, ledger, listener, codec, service, http, resp, hist>>

\* _run_loop lines 75-77: the test of the stop event; the thread calls _tick
\* or leaves the loop and ends
RunLoop ==
    /\ agent.pc = "idle"
    /\ agent' = [agent EXCEPT !.pc = IF agent.stop_event THEN "exited" ELSE "tick"]
    /\ UNCHANGED <<proposals, votes, neo_client, vote_neo_client, env, now, ledger, listener, codec, service, http, resp, hist>>

\* SimulatedVotingAgent.stop line 68 (called by shutdown_event): the event
\* is set; the join that follows waits for the thread for two seconds at most
AgentStop ==
    /\ ~agent.stop_event
    /\ agent' = [agent EXCEPT !.stop_event = TRUE]
    /\ service' = [service EXCEPT !.last_call = "agent.stop"]
    /\ UNCHANGED <<proposals, votes, neo_client, vote_neo_client, env, now, ledger, listener, codec, http, resp, hist>>

\* SimulatedVotingAgent.start lines 57-63, called when the stop() before it
\* has returned: its join ends when the thread has ended, or after two
\* seconds with the thread still inside a tick (a thread asleep between two
\* ticks ends within half a second).  A live thread makes start() return at
\* once; otherwise the event is cleared and a new thread runs the loop of the
\* same agent object.
AgentStart ==
    /\ ~service.shutdown
    /\ ~(agent.stop_event /\ agent.pc = "idle")
    /\ agent' = IF agent.pc # "exited" THEN agent
                ELSE [agent EXCEPT !.pc = "idle", !.stop_event = FALSE]
    /\ service' = [service EXCEPT !.last_call = "agent.start"]
    /\ UNCHANGED <<proposals, votes, neo_client, vote_neo_client, env, now, ledger, listener, codec, http, resp, hist>>

\* shutdown_event lines 228-236: the executors are shut down and the agent is
\* stopped; the listener, a local variable of startup_event, is not touched
ShutdownEvent ==
    /\ ~service.shutdown
    /\ http.pc = "idle"
    /\ agent' = [agent EXCEPT !.stop_event = TRUE]
    /\ service' = [service EXCEPT !.shutdown = TRUE, !.last_call = "agent.stop"]
    /\ UNCHANGED <<proposals, votes, neo_client, vote_neo_client, env, now, ledger, listener, codec, http, resp, hist>>

\* _tick lines 84-88: a new session, the time, the active proposals loaded
AgentTick ==
    /\ agent.pc = "tick"
    /\ agent' = [agent EXCEPT
                    !.pc = "tick_loop",
                    !.now = now,
                    !.queue = ActiveList,
                    !.cache = [p \in ProposalIds |->
                                  IF proposals[p].status = "active"
                                  THEN proposals[p] ELSE NoRow]]
    /\ UNCHANGED <<proposals, votes, neo_client, vote_neo_client, env, now, ledger, listener, codec, service, http, resp, hist>>

\* Faulty variant of TooEarly (sensitivity of C29): no interval guard
TooEarly_Never(p) == FALSE

\* _tick lines 97-99: the interval guard.  Without an entry the `last` is 0.0,
\* the epoch, further back than any interval.
TooEarly(p) ==
    /\ agent.last_vote_at[p] # <<>>
    /\ agent.now - agent.last_vote_at[p][1] < agent.interval_seconds

\* _tick lines 89-110 for the next proposal of the loop: an expired object is
\* loaded again on `proposal.yes_votes`; the cap; the deadline, against the
\* time read at the start of the tick; the choice (random, either value has
\* probability at least 0.05); the address; the call of process_vote.
AgentNext ==
    /\ agent.pc = "tick_loop"
    /\ agent.queue # <<>>
    /\ LET p == Head(agent.queue)
           row == IF agent.cache[p].status = "absent"
                  THEN proposals[p] ELSE agent.cache[p]
           current_votes == Sum(row)
           voter == GenerateVoterAddress(p, current_votes)
       IN  IF \/ current_votes >= MaxVotesPerProposal
              \/ row.deadline # 0 /\ agent.now > row.deadline
              \/ TooEarly(p)
           THEN /\ agent' = [agent EXCEPT !.queue = Tail(@), !.cache[p] = row]
                /\ UNCHANGED <<resp, hist>>
           ELSE \E c \in {0, 1} :
                /\ agent' = [agent EXCEPT
                                !.pc = "pv_local", !.pid = p, !.voter = voter,
                                !.choice = c, !.cache[p] = row]
                /\ resp' = [resp EXCEPT !.agent = NoResp]
                /\ BeginHist("agent", p, voter)
    /\ UNCHANGED <<proposals, votes, neo_client, vote_neo_client, env, now, ledger, listener, codec, service, http>>

\* _tick lines 141-142: the loop is over, db.close()
AgentTickEnd ==
    /\ agent.pc = "tick_loop"
    /\ agent.queue = <<>>
    /\ agent' = [agent EXCEPT !.pc = "idle", !.cache = NoCache, !.now = 0]
    /\ UNCHANGED <<proposals, votes, neo_client, vote_neo_client, env, now, ledger, listener, codec, service, http, resp, hist>>

\* ------------------------------------------------------------------- Next
Next ==
    \/ SubmitMemo
    \/ SyncCreate
    \/ \E p \in RequestIds, a \in HttpAddrs, c \in {0, 1} : ReceiveVote(p, a, c)
    \/ HttpVote
    \/ \E ctx \in Contexts : ProcessVoteLocal(ctx)
    \/ \E ctx \in Contexts : LedgerVoteCheck(ctx)
    \/ \E ctx \in Contexts : LedgerVoteWrite(ctx)
    \/ \E ctx \in Contexts : ProcessVoteCommit(ctx)
    \/ \E p \in RequestIds : ReceiveFinalize(p)
    \/ HttpFinalize
    \/ FinalizeLedger
    \/ FinalizeCommit
    \/ ListenerPoll
    \/ RunLoop
    \/ AgentTick
    \/ AgentNext
    \/ AgentTickEnd

Spec == Init /\ [][Next]_vars

\* ------------------------------------------------- an unreachable ledger
\* The simulation backend raises only on a duplicate vote.  NeoClient's
\* methods re-raise what a remote call raises (neo_client.py lines 107-109,
\* 136-138); SpecFault lets a ledger call fail that way.

\* neo_client.vote raises before anything is recorded
LedgerVoteUnavailable(ctx) ==
    /\ Loc(ctx).pc = "pv_ledger"
    /\ VoteLedgerRaised(ctx)
    /\ UNCHANGED <<neo_client, env, now, ledger, listener, codec, service, hist>>

\* neo_client.finalize_proposal raises
FinalizeLedgerUnavailable ==
    /\ http.pc = "fin_ledger"
    /\ FinalizeRaised
    /\ UNCHANGED <<votes, neo_client, vote_neo_client, env, now, ledger, listener, codec, service, agent, hist>>

NextFault ==
    \/ Next
    \/ \E ctx \in Contexts : LedgerVoteUnavailable(ctx)
    \/ FinalizeLedgerUnavailable

SpecFault == Init /\ [][NextFault]_vars

\* ---------------------------------------------------------------- the clock
MaxTime == 2

\* Time passes (between any two steps of the program)
Tick ==
    /\ now < MaxTime
    /\ now' = now + 1
    /\ UNCHANGED <<proposals, votes, neo_client, vote_neo_client, env, http,
                   agent, resp, ledger, listener, codec, service, hist>>

NextTimed ==
    \/ Next
    \/ Tick

\* A deployment without ledger credentials and DEMO_MODE off: the listener is
\* started and the client simulates.
InitTimed == Init /\ env = "nocreds"

SpecTimed == InitTimed /\ [][NextTimed]_vars

\* ------------------------------------------------------------- a restart
\* The backend process ends and is started again (startup_event): the store
\* persists, uncommitted transactions are lost with their sessions, and
\* everything kept in memory is new: both NeoClient instances with their
\* simulation state, and the agent with its per-proposal counters.
Restart ==
    /\ http' = IdleHttp
    /\ agent' = NewAgent
    /\ neo_client' = NewNeoClient
    /\ vote_neo_client' = NewNeoClient
    /\ resp' = [c \in Contexts |-> NoResp]
    /\ hist' = [c \in Contexts |-> [NoHist EXCEPT !.recorded = hist[c].recorded]]
    /\ UNCHANGED <<proposals, votes, env, now, ledger, listener, codec, service>>

NextRestart ==
    \/ Next
    \/ Restart

SpecRestart == InitTimed /\ [][NextRestart]_vars

\* ------------------------------------------ the two backends, side by side
\* NeoClient.vote in simulation mode, one caller: _simulate_vote as a whole
NeoVote(client, rid, a, c) ==
    IF VoteKeyIn(client, rid, a)
    THEN [ok |-> FALSE, st |-> client]
    ELSE [ok |-> TRUE, st |-> SimulateVote(client, rid, a, c)]

\* NeoClient.get_proposal in simulation mode: the record as the string
\* "title|ipfs_hash|deadline|confidence|yes_votes|no_votes|finalized", "" when
\* the client has no record
FormatProposal(rec) ==
    IF rec.exists
    THEN <<rec.deadline, rec.yes_votes, rec.no_votes,
           IF rec.finalized THEN 1 ELSE 0>>
    ELSE <<>>

Called(op, p, a, c, sim_ok, sim_ret, chain_ok, chain_ret) ==
    [op |-> op, pid |-> p, voter |-> a, choice |-> c,
     sim_ok |-> sim_ok, sim_ret |-> sim_ret,
     chain_ok |-> chain_ok, chain_ret |-> chain_ret]

main_vars == <<proposals, votes, neo_client, vote_neo_client, env, http, agent,
               resp, listener, codec, service, hist>>

\* create_proposal(title, ipfs_hash, deadline, confidence) on both
LedgerCreate ==
    /\ ledger.sim.next_proposal_id \in ProposalIds
    /\ ledger.chain.proposal_count + 1 \in ProposalIds
    /\ LET deadline == now + VotingPeriod
           r == ContractCreateProposal(ledger.chain, deadline)
       IN  ledger' = [sim |-> SimulateCreateProposal(ledger.sim, deadline),
                      chain |-> r.st,
                      call |-> Called("create", 0, NoAddr, 0,
                                      TRUE, <<ledger.sim.next_proposal_id>>,
                                      TRUE, <<r.ret>>)]
    /\ UNCHANGED <<main_vars, now>>

\* The calls stop when a contract record counts MaxLedgerVotes votes
MaxLedgerVotes == 3

ContractVoteCount(chain, p) ==
    IF Len(chain.proposals[p]) = 0 THEN 0
    ELSE chain.proposals[p][2] + chain.proposals[p][3]

\* vote(proposal_id, voter, choice) on both
LedgerVote(p, a, c) ==
    /\ ContractVoteCount(ledger.chain, p) < MaxLedgerVotes
    /\ LET s == NeoVote(ledger.sim, p, a, c)
           r == ContractVote(ledger.chain, now, p, a, c)
       IN  ledger' = [sim |-> s.st, chain |-> r.st,
                      call |-> Called("vote", p, a, c, s.ok, <<>>, r.ret, <<>>)]
    /\ UNCHANGED <<main_vars, now>>

\* finalize_proposal(proposal_id) on both
LedgerFinalize(p) ==
    /\ LET r == ContractFinalizeProposal(ledger.chain, now, p)
       IN  ledger' = [sim |-> SimulateFinalize(ledger.sim, p), chain |-> r.st,
                      call |-> Called("finalize", p, NoAddr, 0,
                                      TRUE, <<>>, r.ret, <<>>)]
    /\ UNCHANGED <<main_vars, now>>

\* get_proposal(proposal_id) on both
LedgerGet(p) ==
    /\ ledger' = [ledger EXCEPT
                    !.call = Called("get", p, NoAddr, 0,
                                    TRUE,
                                    FormatProposal(ledger.sim.simulated_proposals[p]),
                                    TRUE,
                                    ContractGetProposal(ledger.chain, p))]
    /\ UNCHANGED <<main_vars, now>>

\* has_voted(proposal_id, voter) on both: NeoClient defines no such method
\* (the call raises AttributeError); the contract answers from its storage
LedgerHasVoted(p, a) ==
    /\ ledger' = [ledger EXCEPT
                    !.call = Called("has_voted", p, a, 0,
                                    FALSE, <<>>,
                                    TRUE,
                                    <<ContractHasVoted(ledger.chain, p, a)>>)]
    /\ UNCHANGED <<main_vars, now>>

NextLedger ==
    \/ LedgerCreate
    \/ \E p \in RequestIds, a \in HttpAddrs, c \in {0, 1} : LedgerVote(p, a, c)
    \/ \E p \in RequestIds : LedgerFinalize(p)
    \/ \E p \in ProposalIds : LedgerGet(p)
    \/ \E p \in RequestIds, a \in HttpAddrs : LedgerHasVoted(p, a)
    \/ Tick

SpecLedger == Init /\ [][NextLedger]_vars

\* ------------------------------------------------------ two proposals, a tick
\* The state after submit_memo was called twice at time 0
TwoSubmitted ==
    /\ proposals = [i \in ProposalIds |->
                       IF i <= 2 THEN NewProposalRow(i, VotingPeriod) ELSE NoRow]
    /\ neo_client = SimulateCreateProposal(
                        SimulateCreateProposal(NewNeoClient, VotingPeriod),
                        VotingPeriod)
    /\ votes = {}
    /\ vote_neo_client = NewNeoClient
    /\ http = IdleHttp
    /\ now = 0
    /\ ledger = NewLedger
    /\ listener = NoPoll
    /\ codec = NoCodec
    /\ resp = [c \in Contexts |-> NoResp]
    /\ hist = [c \in Contexts |-> NoHist]

InitTick ==
    /\ TwoSubmitted
    /\ env = "demo"
    /\ agent = NewAgent
    /\ service = StartedService(env)

\* The agent's thread
AgentThread ==
    \/ RunLoop
    \/ AgentTick
    \/ AgentNext
    \/ ProcessVoteLocal("agent")
    \/ LedgerVoteCheck("agent")
    \/ LedgerVoteWrite("agent")
    \/ ProcessVoteCommit("agent")
    \/ AgentTickEnd

\* The agent, and HTTP callers who vote on the first proposal
NextTick ==
    \/ AgentThread
    \/ \E a \in HttpAddrs, c \in {0, 1} : ReceiveVote(1, a, c)
    \/ HttpVote
    \/ ProcessVoteLocal("http")
    \/ LedgerVoteCheck("http")
    \/ LedgerVoteWrite("http")
    \/ ProcessVoteCommit("http")

SpecTick == InitTick /\ [][NextTick]_vars

\* ------------------------------------------------------- stopping the agent
\* The agent alone, and stop(); the thread, while it lives, is scheduled
\* again and again (weak fairness of its steps).
NextStop ==
    \/ AgentThread
    \/ AgentStop

SpecStop == InitTick /\ [][NextStop]_vars /\ WF_vars(AgentThread)

\* ------------------------------------------- the listener and a remote ledger
\* The records a remote ledger may hold for a proposal: a title, a content
\* hash, a deadline, a confidence, tallies (a tie, a lead of either side, and
\* two-digit against one-digit), finalized or not
LedgerTallies == {<<1, 1>>, <<1, 0>>, <<0, 1>>, <<10, 9>>}
LedgerRecords ==
    {WireRecord(<<"t">>, <<"h">>, 1, 5, t[1], t[2], f) :
        t \in LedgerTallies, f \in BOOLEAN}

\* Strings that are not the encoding of a record: six fields only, and a field
\* that is not a numeral in the place of deadline, confidence, yes_votes,
\* no_votes, finalized
MalformedFields ==
    { <<"1", "5", "1", "0">>,
      <<"x", "5", "1", "0", "1">>,
      <<"1", "x", "1", "0", "1">>,
      <<"1", "5", "x", "0", "1">>,
      <<"1", "5", "1", "x", "0">>,
      <<"1", "5", "1", "0", "x">> }
MalformedStrings ==
    {Join(<<<<"t">>, <<"h">>>> \o [i \in 1..Len(m) |-> <<m[i]>>]) : m \in MalformedFields}

\* What get_proposal may answer: a record's string, a malformed string, ""
\* (no record), or an exception of the transport
LedgerAnswers ==
    {Answer(FALSE, EncodeProposal(r)) : r \in LedgerRecords}
        \cup {Answer(FALSE, s) : s \in MalformedStrings}
        \cup {NoAnswer, Answer(TRUE, <<>>)}

\* One poll of the listener against the remote ledger; a commit of the poll
\* may fail (the store is locked or unreachable)
ListenerPollRemote ==
    /\ http.pc = "idle"
    /\ \E answers \in [ProposalIds -> LedgerAnswers],
          commit_fails \in [ProposalIds -> BOOLEAN] :
          /\ \A p \in ProposalIds :
                /\ proposals[p].status # "active" =>
                        answers[p] = NoAnswer /\ ~commit_fails[p]
                /\ commit_fails[p] =>
                        ListenerOutcome(answers[p]) \in {"approved", "rejected"}
          /\ CheckForFinalizedProposals(answers, commit_fails)
    /\ UNCHANGED <<votes, neo_client, vote_neo_client, env, now, ledger, codec, http, agent, resp, hist>>

InitListener ==
    /\ TwoSubmitted
    /\ env = "real"
    /\ agent = NewAgent
    /\ service = StartedService(env)

NextListener == ListenerPollRemote

SpecListener == InitListener /\ [][NextListener]_vars

\* --------------------------------------------------------- the routes alone
\* SIMULATED_VOTING_ENABLED is false unless configured: no agent thread; the
\* listener, where it runs, changes nothing (ListenerPoll).  One handler runs
\* at a time on the event loop, so the submissions are sequential.
NextHttp ==
    \/ SubmitMemo
    \/ SyncCreate
    \/ \E p \in RequestIds, a \in HttpAddrs, c \in {0, 1} : ReceiveVote(p, a, c)
    \/ HttpVote
    \/ ProcessVoteLocal("http")
    \/ LedgerVoteCheck("http")
    \/ LedgerVoteWrite("http")
    \/ ProcessVoteCommit("http")
    \/ \E p \in RequestIds : ReceiveFinalize(p)
    \/ HttpFinalize
    \/ FinalizeLedger
    \/ FinalizeCommit

SpecHttp == Init /\ [][NextHttp]_vars

main_vars_but_codec ==
    <<proposals, votes, neo_client, vote_neo_client, env, http, agent, resp,
      listener, service, hist>>

\* ------------------------------------------------------- the wire format
\* Records: free text without the separator (empty, one word, two words), and
\* integers of one to three digits
CodecRecords ==
    {WireRecord(t, <<"h">>, d, c, y, n, f) :
        t \in {<<>>, <<"t">>, <<"a", " ", "b">>},
        d \in {0, 1, 12}, c \in {0, 5, 100}, y \in {0, 1, 10}, n \in {0, 9},
        f \in BOOLEAN}

\* Strings in the form the encoders write: seven fields, the numeric ones
\* decimal numerals without sign, padding or leading zeros
Numerals == {<<"0">>, <<"7">>, <<"1", "0">>}
CanonicalStrings ==
    {Join(<<t, <<"h">>, d, c, y, n, f>>) :
        t \in {<<>>, <<"t">>}, d \in Numerals, c \in Numerals, y \in Numerals,
        n \in Numerals, f \in {<<"0">>, <<"1">>}}

\* Strings int() accepts although no encoder writes them: a leading zero, a
\* sign, padding
LooseStrings ==
    {Join(<<<<"t">>, <<"h">>, <<"1">>, <<"5">>, y, <<"0">>, <<"1">>>>) :
        y \in {<<"0", "1">>, <<"+", "1">>, <<" ", "1">>}}

WireStrings == CanonicalStrings \cup LooseStrings \cup MalformedStrings

\* A record is encoded, and the string decoded
EncodeRecord(r) ==
    /\ codec' = [op |-> "encode", record |-> r, wire |-> EncodeProposal(r),
                 decoded |-> DecodeProposal(EncodeProposal(r)),
                 reencoded |-> <<>>]
    /\ UNCHANGED <<main_vars_but_codec, now, ledger>>

\* A string is decoded, and the fields written back
DecodeString(s) ==
    /\ codec' = [op |-> "decode", record |-> NoCodec.record, wire |-> s,
                 decoded |-> DecodeProposal(s),
                 reencoded |-> IF DecodeProposal(s).ok
                               THEN ReEncode(DecodeProposal(s)) ELSE <<>>]
    /\ UNCHANGED <<main_vars_but_codec, now, ledger>>

NextCodec ==
    \/ \E r \in CodecRecords : EncodeRecord(r)
    \/ \E s \in WireStrings : DecodeString(s)

InitCodec == Init /\ env = "demo"

SpecCodec == InitCodec /\ [][NextCodec]_vars

\* ------------------------------------------------- the agent's interval
\* SIMULATED_VOTING_INTERVAL_SECONDS as configured, in voting periods: below
\* zero, below the clock's resolution, one period
IntervalConfigs == {0 - 1, 0, 1}

InitInterval ==
    /\ TwoSubmitted
    /\ env = "demo"
    /\ agent \in {AgentWith(i) : i \in IntervalConfigs}
    /\ service = StartedService(env)

\* The agent alone, and the clock
NextInterval ==
    \/ AgentThread
    \/ Tick

SpecInterval == InitInterval /\ [][NextInterval]_vars

\* ---------------------------------------------------- two proposals created
\* Proposals are created by the route and by the Storacha sync, up to one
\* more than in Spec, the process may be started again in between, and real
\* voters vote on every proposal through the route.
InitCreate == Init /\ env = "demo"

NextCreate ==
    \/ SubmitMemoUpTo(MaxProposals + 1)
    \/ SyncCreateUpTo(MaxProposals + 1)
    \/ \E p \in ProposalIds, a \in RealAddrs, c \in {0, 1} : ReceiveVote(p, a, c)
    \/ HttpVote
    \/ ProcessVoteLocal("http")
    \/ LedgerVoteCheck("http")
    \/ LedgerVoteWrite("http")
    \/ ProcessVoteCommit("http")
    \/ Restart

SpecCreate == InitCreate /\ [][NextCreate]_vars

\* ------------------------------------------------------ start, stop, shutdown
\* The service with DEMO_MODE off and the synthetic agent enabled, from the
\* moment the agent's thread runs and the listener is constructed: the calls
\* of start() and stop() on the listener and on the agent, the listener's
\* coroutines, the agent's thread, and shutdown_event.
InitService ==
    /\ TwoSubmitted
    /\ env \in {"nocreds", "real"}
    /\ agent = NewAgent
    /\ service = NewService

NextService ==
    \/ AgentThread
    \/ AgentStop
    \/ AgentStart
    \/ \E k \in Tasks : ListenerStart(k)
    \/ \E k \in Tasks : ListenerWake(k)
    \/ ListenerStop
    \/ ShutdownEvent

SpecService == InitService /\ [][NextService]_vars

\* --------------------------------------------------- the agent, tick after tick
\* The commits that fail in one run
MaxCommitFailures == 1

\* process_vote line 92 raises for a reason other than the unique index (the
\* store is locked or the connection is lost for a moment): the flush fails,
\* nothing is stored, and the exception leaves process_vote after the ledger
\* vote has been recorded
ProcessVoteCommitFails(ctx) ==
    /\ Loc(ctx).pc = "pv_commit"
    /\ service.commit_failures < MaxCommitFailures
    /\ service' = [service EXCEPT !.commit_failures = @ + 1]
    /\ EndVote(ctx, 500, "commit_error")
    /\ UNCHANGED <<proposals, votes, neo_client, vote_neo_client, env, now, ledger, listener, codec, hist>>

\* The agent alone, its thread scheduled again and again, and a commit that
\* may fail
NextProgress ==
    \/ AgentThread
    \/ ProcessVoteCommitFails("agent")

SpecProgress == InitTick /\ [][NextProgress]_vars /\ WF_vars(AgentThread)

\* ================================================================= claims
LocNext(ctx) == IF ctx = "http" THEN http' ELSE agent'
Terminal(row) == row.status \in {"approved", "rejected"}
\* process_vote is running in ctx
InProcessVote(ctx) ==
    Loc(ctx).pc \in {"pv_local", "pv_ledger", "pv_ledger_write", "pv_commit"}
VoteInFlight == http.pc \in VotePcs \/ InProcessVote("agent")

\* C1: for every proposal of the store, yes_votes + no_votes is the number of
\* its Vote rows and yes_votes the number of its rows with vote = 1, in every
\* reachable state, whatever the interleaving of the submissions.
C1_TallyEqualsVoteRows ==
    \A p \in ProposalIds :
        Exists(p) =>
            /\ Sum(proposals[p]) = Cardinality(VotesOf(p))
            /\ proposals[p].yes_votes = Cardinality({v \in VotesOf(p) : v.vote = 1})

\* C2: when two submissions for the same pair, new on an active proposal, were
\* in flight together and both have returned, exactly one returned success,
\* the pair has at most one Vote row, and if the pair's row is the only one
\* added since they began, the proposal's tally sum has grown by exactly one.
C2_ConcurrentSamePair ==
    ( /\ resp["http"].op = "vote" /\ resp["agent"].op = "vote"
      /\ hist["http"].rival /\ hist["agent"].rival
      /\ hist["http"].fresh /\ hist["agent"].fresh )
    => LET p == hist["http"].pid
           a == resp["http"].voter
       IN  /\ Cardinality({c \in Contexts : resp[c].code = 200}) = 1
           /\ Cardinality(PairRows(p, a)) <= 1
           /\ ( /\ hist["http"].rows0 = hist["agent"].rows0
                /\ hist["http"].sum0 = hist["agent"].sum0
                /\ Cardinality(VotesOf(p)) = hist["http"].rows0 + 1 )
              => Sum(proposals[p]) = hist["http"].sum0 + 1

\* C3: once a proposal's status is approved or rejected, no step changes its
\* status, its yes_votes or its no_votes.
C3_TerminalIsFrozen ==
    [][\A p \in ProposalIds :
          Terminal(proposals[p]) => proposals'[p] = proposals[p]]_vars

\* C4: in every reachable state, a proposal with a terminal status is approved
\* exactly when its stored yes_votes exceed its stored no_votes (a tie is
\* rejected).
C4_StatusIsFunctionOfTallies ==
    \A p \in ProposalIds :
        Terminal(proposals[p]) =>
            (proposals[p].status = "approved"
                <=> proposals[p].yes_votes > proposals[p].no_votes)

\* C5: in every state with no vote submission in flight, the stored tallies of
\* every proposal equal those of the ledger record its on_chain_id (or id)
\* addresses, where the backend's ledger holds that record.
C5_MirrorEqualsLedger ==
    ~VoteInFlight =>
        \A p \in ProposalIds :
            LET rec == neo_client.simulated_proposals[RemoteId(p, proposals[p])]
            IN  (Exists(p) /\ rec.exists) =>
                    /\ rec.yes_votes = proposals[p].yes_votes
                    /\ rec.no_votes = proposals[p].no_votes

\* C6: a step of a vote submission that performs the local duplicate test (the
\* route's on an active proposal, or process_vote's) while the pair already
\* has a Vote row ends the call with the 400 duplicate-vote error and changes
\* neither the rows, the tallies nor either ledger client.
C6_DuplicateRejected ==
    [][\A ctx \in Contexts :
          ( /\ \/ ctx = "http" /\ http.pc = "vote"
                  /\ proposals[http.pid].status = "active"
               \/ Loc(ctx).pc = "pv_local"
            /\ PairRows(Loc(ctx).pid, Loc(ctx).voter) # {}
            /\ LocNext(ctx) # Loc(ctx) )
          => /\ resp'[ctx].op = "vote"
             /\ resp'[ctx].code = 400
             /\ resp'[ctx].detail = "duplicate"
             /\ ~InFlight(ctx, Loc(ctx).pid, Loc(ctx).voter)'
             /\ UNCHANGED <<proposals, votes, neo_client, vote_neo_client>>]_vars

\* C6 happens: a submission for a pair that has its row was answered 400.
C6_Witness ==
    /\ resp["http"].op = "vote"
    /\ resp["http"].code = 400
    /\ resp["http"].detail = "duplicate"
    /\ PairRows(resp["http"].pid, resp["http"].voter) # {}

\* C7: the finalize handler's step on a proposal whose stored status is not
\* active answers 400 "not active" and ends the call there (finalize_proposal
\* of the ledger is not reached), changing neither status, tallies, rows nor
\* the ledger.
C7_FinalizeNonActive ==
    [][( /\ http.pc = "finalize"
         /\ Terminal(proposals[http.pid])
         /\ http' # http )
       => /\ resp'["http"].op = "finalize"
          /\ resp'["http"].code = 400
          /\ resp'["http"].detail = "not_active"
          /\ http'.pc = "idle"
          /\ ~http.called_ledger
          /\ UNCHANGED <<proposals, votes, neo_client, vote_neo_client>>]_vars

\* C7 happens: finalize was refused on a finalized proposal.
C7_Witness ==
    /\ resp["http"].op = "finalize"
    /\ resp["http"].code = 400
    /\ resp["http"].detail = "not_active"
    /\ Terminal(proposals[resp["http"].pid])

\* C8: when the ledger's finalize call raises, the handler answers with an
\* error and the stored row is as before, its status still active.
C8_FinalizeFailClosed ==
    [][( /\ http.pc = "fin_ledger"
         /\ http'.pc # "fin_commit"
         /\ http' # http )
       => /\ resp'["http"].op = "finalize"
          /\ resp'["http"].code = 500
          /\ proposals' = proposals
          /\ proposals'[http.pid].status = "active"
          /\ votes' = votes]_vars

\* C8 happens: a finalize ended with the ledger's error, the proposal active.
C8_Witness ==
    /\ resp["http"].op = "finalize"
    /\ resp["http"].code = 500
    /\ resp["http"].detail = "ledger_error"
    /\ proposals[resp["http"].pid].status = "active"

\* C9: the step in which the ledger's vote call raises inside process_vote
\* ends the submission with an error, adds no Vote row and changes no tally.
C9_LedgerVoteFailure ==
    [][\A ctx \in Contexts :
          ( /\ Loc(ctx).pc = "pv_ledger"
            /\ LocNext(ctx).pc # "pv_ledger_write"
            /\ LocNext(ctx) # Loc(ctx) )
          => /\ resp'[ctx].op = "vote"
             /\ resp'[ctx].code = 500
             /\ ~InProcessVote(ctx)'
             /\ votes' = votes
             /\ proposals' = proposals]_vars

\* C9 happens: a submission ended with the ledger's error on a pair without row.
C9_Witness ==
    \E ctx \in Contexts :
        /\ resp[ctx].op = "vote"
        /\ resp[ctx].detail = "ledger_error"
        /\ PairRows(resp[ctx].pid, resp[ctx].voter) = {}

\* C10: a submission that ends at the proposal lookup, the status check or a
\* duplicate check (before the ledger submit) has made no ledger vote call and
\* its last step changes neither rows, tallies nor either ledger client.
C10_NoEffectBeforeSubmit ==
    [][\A ctx \in Contexts :
          ( /\ Loc(ctx).pc \in {"vote", "pv_local"}
            /\ LocNext(ctx).pc \notin VotePcs )
          => /\ ~Loc(ctx).called_ledger
             /\ resp'[ctx].op = "vote"
             /\ resp'[ctx].code \in {400, 404}
             /\ UNCHANGED <<proposals, votes, neo_client, vote_neo_client>>]_vars

\* C10 happens: a submission was refused at the status check.
C10_Witness ==
    /\ resp["http"].op = "vote"
    /\ resp["http"].code = 400
    /\ resp["http"].detail = "not_active"
    /\ Terminal(proposals[resp["http"].pid])

\* C11: a submission that loses the race for its pair (at its ledger vote the
\* ledger's map already holds the pair's key, or at its commit the pair's row
\* is already stored) ends with the 400 duplicate-vote error.
C11_LoserGetsDuplicateError ==
    [][\A ctx \in Contexts :
          ( /\ \/ /\ Loc(ctx).pc = "pv_ledger"
                  /\ VoteKeyIn(vote_neo_client,
                               RemoteId(Loc(ctx).pid, Loc(ctx).cache[Loc(ctx).pid]),
                               Loc(ctx).voter)
               \/ /\ Loc(ctx).pc = "pv_commit"
                  /\ PairRows(Loc(ctx).pid, Loc(ctx).voter) # {}
            /\ hist[ctx].rival
            /\ LocNext(ctx) # Loc(ctx) )
          => /\ resp'[ctx].op = "vote"
             /\ resp'[ctx].code = 400
             /\ resp'[ctx].detail = "duplicate"]_vars

\* C12: process_vote's step at its duplicate checks, taken while the ledger
\* holds a vote for the pair's remote id and voter and the store has no row for
\* the pair, ends the call with the 400 on-chain duplicate error, before any
\* ledger vote, and changes neither rows, tallies nor the ledger.
C12_RemoteDuplicateRejected ==
    [][\A ctx \in Contexts :
          ( /\ Loc(ctx).pc = "pv_local"
            /\ VoteKeyIn(vote_neo_client,
                         RemoteId(Loc(ctx).pid, Loc(ctx).cache[Loc(ctx).pid]),
                         Loc(ctx).voter)
            /\ PairRows(Loc(ctx).pid, Loc(ctx).voter) = {}
            /\ LocNext(ctx) # Loc(ctx) )
          => /\ resp'[ctx].op = "vote"
             /\ resp'[ctx].code = 400
             /\ resp'[ctx].detail = "duplicate_on_chain"
             /\ ~InProcessVote(ctx)'
             /\ UNCHANGED <<proposals, votes, neo_client, vote_neo_client>>]_vars

\* C13: process_vote is entered, from a route or from the agent, only for a
\* proposal whose stored status is active at that moment, and no Vote row is
\* added to a proposal whose stored status is not active.
C13_NotActiveRejected ==
    [][/\ \A ctx \in Contexts :
             (~InProcessVote(ctx) /\ InProcessVote(ctx)')
                 => proposals[LocNext(ctx).pid].status = "active"
       /\ \A v \in votes' \ votes : proposals[v.proposal_id].status = "active"]_vars

\* A vote call was given to the two backends in this step
VoteCalled == ledger' # ledger /\ ledger'.call.op = "vote"
ChainHasVote(chain, p, a) ==
    \E e \in chain.votes : e.proposal_id = p /\ e.voter = a

\* C14: a vote call on a record that is finalized is refused and changes
\* neither the record nor the vote map, in the simulation backend and in the
\* contract alike.
C14_VoteOnFinalizedRefused ==
    [][VoteCalled =>
          LET p == ledger'.call.pid
          IN  /\ ( /\ ledger.sim.simulated_proposals[p].exists
                   /\ ledger.sim.simulated_proposals[p].finalized )
                 => (~ledger'.call.sim_ok /\ ledger'.sim = ledger.sim)
              /\ ( /\ Len(ledger.chain.proposals[p]) > 0
                   /\ ledger.chain.proposals[p][4] = 1 )
                 => (~ledger'.call.chain_ok /\ ledger'.chain = ledger.chain)]_vars

\* C15: a vote call made when the time is greater than the record's deadline
\* is refused and records neither a vote entry nor a tally increment, in the
\* simulation backend and in the contract alike.
C15_VoteAfterDeadlineRefused ==
    [][VoteCalled =>
          LET p == ledger'.call.pid
          IN  /\ ( /\ ledger.sim.simulated_proposals[p].exists
                   /\ now > ledger.sim.simulated_proposals[p].deadline )
                 => (~ledger'.call.sim_ok /\ ledger'.sim = ledger.sim)
              /\ ( /\ Len(ledger.chain.proposals[p]) > 0
                   /\ now > ledger.chain.proposals[p][1] )
                 => (~ledger'.call.chain_ok /\ ledger'.chain = ledger.chain)]_vars

\* C16: a step that gives a proposal a terminal stored status, or sets the
\* finalized flag of its record on the backend's ledger client, is taken only
\* when the time has reached the proposal's deadline.
C16_FinalizedOnlyAfterDeadline ==
    [][\A p \in ProposalIds :
          /\ (~Terminal(proposals[p]) /\ Terminal(proposals'[p]))
                => now >= proposals[p].deadline
          /\ ( /\ ~neo_client.simulated_proposals[p].finalized
               /\ neo_client'.simulated_proposals[p].finalized )
                => now >= neo_client.simulated_proposals[p].deadline]_vars

\* C17: a vote call for a pair that already has a recorded choice, 1 or 0, is
\* refused and changes no ledger state, whatever the new choice, in the
\* simulation backend and in the contract alike.
C17_SecondVoteRefused ==
    [][VoteCalled =>
          LET p == ledger'.call.pid
              a == ledger'.call.voter
          IN  /\ VoteKeyIn(ledger.sim, p, a)
                 => (~ledger'.call.sim_ok /\ ledger'.sim = ledger.sim)
              /\ ChainHasVote(ledger.chain, p, a)
                 => (~ledger'.call.chain_ok /\ ledger'.chain = ledger.chain)]_vars

\* C18: every call given to both backends is accepted by both or refused by
\* both and returns the same value (the same id, the same encoded record).
C18_BackendsAgree ==
    /\ ledger.call.sim_ok = ledger.call.chain_ok
    /\ ledger.call.sim_ret = ledger.call.chain_ret

\* C19: the agent enters process_vote for a proposal only when the stored
\* tally sum is below max_votes_per_proposal and the time is not past the
\* proposal's deadline; the votes the agent has recorded for a proposal never
\* number more than max_votes_per_proposal and none is recorded when the time
\* is past the deadline.
C19_AgentWithinCapAndDeadline ==
    [][/\ (~InProcessVote("agent") /\ InProcessVote("agent")')
             => /\ Sum(proposals[agent'.pid]) < MaxVotesPerProposal
                /\ ~(now > proposals[agent'.pid].deadline)
       /\ ( /\ agent.pc = "pv_commit"
            /\ votes' # votes
            /\ agent' # agent )
             => ~(now > proposals[agent.pid].deadline)
       /\ \A p \in ProposalIds :
             agent'.vote_counters[p] <= MaxVotesPerProposal]_vars

\* C20: the address the agent generates for a proposal when it enters
\* process_vote is none of the addresses of the votes it has recorded for that
\* proposal, also after a restart that resets its counters.
C20_GeneratedAddressIsNew ==
    [][(~InProcessVote("agent") /\ InProcessVote("agent")')
          => <<agent'.pid, agent'.voter>> \notin hist["agent"].recorded]_vars

\* C21: when process_vote raises for one proposal of a tick (duplicate, ledger
\* error, failed commit), the agent's loop goes on with the remaining
\* proposals of the tick.
C21_ErrorDoesNotEndTick ==
    [][ ( /\ InProcessVote("agent")
          /\ agent'.pc = "tick_loop"
          /\ resp'["agent"].code # 200 )
        => agent'.queue = Tail(agent.queue) ]_vars

\* C22: once stop() has set the stop event, no further tick starts (the loop's
\* test does not pass any more), and a tick in progress runs to its end, after
\* which the thread leaves the loop.
InTick == agent.pc \notin {"idle", "exited"}
C22_StopEndsTheLoop ==
    /\ [][agent.stop_event => ~(agent.pc = "idle" /\ agent'.pc = "tick")]_vars
    /\ [][(agent.stop_event /\ InTick) => agent'.pc # "exited"]_vars
    /\ ((agent.stop_event /\ InTick) ~> (agent.pc = "idle"))
    /\ (agent.stop_event ~> (agent.pc = "exited"))
C22_Witness ==
    /\ agent.stop_event
    /\ agent.pc = "pv_commit"
    /\ Len(agent.queue) = 2

\* C23: when a poll of the listener gets, for a locally active proposal, the
\* string of a finalized ledger record, the status it sets is approved if the
\* record's yes_votes exceed its no_votes and rejected otherwise (a tie is
\* rejected), and it sets it unless a commit of the poll fails; a proposal
\* whose record is not finalized stays active.
C23_ListenerOutcomeRule ==
    [][ \A p \in ProposalIds, r \in LedgerRecords :
          ( /\ proposals[p].status = "active"
            /\ listener'.answers[p] = Answer(FALSE, EncodeProposal(r)) )
          => LET expected == IF r.yes_votes > r.no_votes
                             THEN "approved" ELSE "rejected"
             IN  IF r.finalized
                 THEN /\ proposals'[p].status \in {"active", expected}
                      /\ (\A q \in ProposalIds : ~listener'.commit_fails[q])
                            => proposals'[p].status = expected
                 ELSE proposals'[p].status = "active" ]_vars
C23_Witness ==
    /\ listener.answers[1] =
          Answer(FALSE, EncodeProposal(WireRecord(<<"t">>, <<"h">>, 1, 5, 1, 1, TRUE)))
    /\ proposals[1].status = "rejected"
    /\ listener.answers[2] =
          Answer(FALSE, EncodeProposal(WireRecord(<<"t">>, <<"h">>, 1, 5, 10, 9, FALSE)))
    /\ proposals[2].status = "active"

\* C24: in one poll, a failure while one active proposal is reconciled
\* (transport, decoding, commit) does not keep another active proposal, whose
\* own record is finalized and whose own commit does not fail, from being
\* updated.
C24_FailureIsPerProposal ==
    [][ \A p \in ProposalIds, r \in LedgerRecords :
          ( /\ proposals[p].status = "active"
            /\ r.finalized
            /\ listener'.answers[p] = Answer(FALSE, EncodeProposal(r))
            /\ ~listener'.commit_fails[p] )
          => proposals'[p].status # "active" ]_vars

\* C28: from a string with fewer than seven fields, or with a numeric field
\* (deadline, confidence, yes_votes, no_votes, finalized) that is not an
\* integer, the listener derives no status: the proposal stays active.
C28_MalformedGivesNoStatus ==
    [][ \A p \in ProposalIds :
          ( /\ proposals[p].status = "active"
            /\ listener'.answers[p].data \in MalformedStrings )
          => proposals'[p].status = "active" ]_vars

\* C25: with sequential submissions by distinct addresses on a new proposal,
\* every successful submission returns the tallies of all the votes so far
\* (yes_votes the number of Yes rows, no_votes the number of No rows), and a
\* finalize that follows k Yes and m No votes returns yes_votes = k,
\* no_votes = m and the status approved if k > m, rejected otherwise.
YesRows(vs, p) == Cardinality({v \in vs : v.proposal_id = p /\ v.vote = 1})
NoRows(vs, p) == Cardinality({v \in vs : v.proposal_id = p /\ v.vote # 1})
C25_SequentialTallies ==
    [][ /\ (http.pc = "pv_commit" /\ resp'["http"].code = 200)
            => VoteReturn(proposals'[http.pid]) =
                  [success |-> TRUE,
                   yes_votes |-> YesRows(votes', http.pid),
                   no_votes |-> NoRows(votes', http.pid)]
        /\ (http.pc = "fin_commit" /\ resp'["http"].code = 200)
            => FinalizeReturn(proposals'[http.pid]) =
                  [success |-> TRUE,
                   status |-> IF YesRows(votes, http.pid) > NoRows(votes, http.pid)
                              THEN "approved" ELSE "rejected",
                   yes_votes |-> YesRows(votes, http.pid),
                   no_votes |-> NoRows(votes, http.pid)] ]_vars
C25_Witness ==
    /\ resp["http"].op = "finalize"
    /\ resp["http"].code = 200
    /\ YesRows(votes, 1) = 1
    /\ NoRows(votes, 1) = 1
    /\ proposals[1].status = "rejected"

\* C26: every create_proposal call on a ledger backend returns an id greater
\* than every id it returned before, the first being 1, and stores a record
\* with yes_votes = 0, no_votes = 0 and finalized = 0.
C26_CreateReturnsNextId ==
    [][ (ledger' # ledger /\ ledger'.call.op = "create")
        => LET sid == ledger'.call.sim_ret[1]
               cid == ledger'.call.chain_ret[1]
               earlier_sim == {p \in ProposalIds :
                                  ledger.sim.simulated_proposals[p].exists}
               earlier_chain == {p \in ProposalIds :
                                    Len(ledger.chain.proposals[p]) > 0}
           IN  /\ sid = Cardinality(earlier_sim) + 1
               /\ \A p \in earlier_sim : sid > p
               /\ ledger'.sim.simulated_proposals[sid].exists
               /\ ledger'.sim.simulated_proposals[sid].yes_votes = 0
               /\ ledger'.sim.simulated_proposals[sid].no_votes = 0
               /\ ~ledger'.sim.simulated_proposals[sid].finalized
               /\ cid = Cardinality(earlier_chain) + 1
               /\ \A p \in earlier_chain : cid > p
               /\ Len(ledger'.chain.proposals[cid]) = 4
               /\ ledger'.chain.proposals[cid][2] = 0
               /\ ledger'.chain.proposals[cid][3] = 0
               /\ ledger'.chain.proposals[cid][4] = 0 ]_vars
C26_Witness ==
    /\ ledger.call.op = "create"
    /\ ledger.call.sim_ret = <<2>>
    /\ ledger.call.chain_ret = <<2>>
    /\ ledger.sim.simulated_proposals[1].yes_votes + ledger.sim.simulated_proposals[1].no_votes > 0

C30_Frame ==
    [][ /\ \A ctx \in Contexts :
              (Loc(ctx).pc = "pv_commit" /\ resp'[ctx].code = 200)
              => LET p == Loc(ctx).pid
                 IN  /\ \/ /\ proposals'[p].yes_votes = proposals[p].yes_votes + 1
                           /\ proposals'[p].no_votes = proposals[p].no_votes
                        \/ /\ proposals'[p].yes_votes = proposals[p].yes_votes
                           /\ proposals'[p].no_votes = proposals[p].no_votes + 1
                     /\ Cardinality(votes') = Cardinality(votes) + 1
                     /\ \A q \in ProposalIds :
                           proposals'[q].status = proposals[q].status
        /\ \A p \in ProposalIds :
              (Exists(p) /\ proposals'[p].status # proposals[p].status)
              => /\ proposals'[p].yes_votes = proposals[p].yes_votes
                 /\ proposals'[p].no_votes = proposals[p].no_votes
                 /\ votes' = votes
        /\ votes \subseteq votes'
        /\ \A p \in ProposalIds : Exists(p) => proposals'[p].status # "absent" ]_vars

\* C35: in every reachable state, a proposal whose stored status is terminal
\* (set by the finalize handler or by a poll of the listener) has had its
\* outcome notification triggered exactly once, whatever DEMO_MODE is.
C35_NotifiedExactlyOnce ==
    \A p \in ProposalIds :
        Terminal(proposals[p]) => service.notified[p] = 1

\* C34: a has_voted call on the contract answers true exactly when a vote of
\* that voter on that proposal id was accepted before, whether the accepted
\* choice was 1 (yes) or 0 (no).
C34_HasVotedIffAccepted ==
    ledger.call.op = "has_voted" =>
        ( ledger.call.chain_ret = <<TRUE>>
            <=> ChainHasVote(ledger.chain, ledger.call.pid, ledger.call.voter) )

\* C33: a step of process_vote at its duplicate checks, taken when the pair
\* has no local row and has_voted raises an error that is not the duplicate
\* rejection, goes on to the ledger vote and records nothing; and the step
\* that ends a submission adds the submission's Vote row exactly when the
\* ledger vote had succeeded and the local commit succeeds.
C33_FailOpen ==
    [][\A ctx \in Contexts :
          LET l == Loc(ctx)
              rid == RemoteId(l.pid, l.cache[l.pid])
              row == VoteRow(l.pid, l.voter, l.choice)
          IN  /\ ( /\ l.pc = "pv_local"
                   /\ LocNext(ctx) # l
                   /\ ~ExistingVote(l.pid, l.voter)
                   /\ HasVoted(vote_neo_client, rid, l.voter) \notin {"true", "false"} )
                 => (LocNext(ctx).pc = "pv_ledger" /\ votes' = votes)
              /\ (InProcessVote(ctx) /\ ~(LocNext(ctx).pc \in VotePcs))
                 => ( (row \in votes' /\ row \notin votes)
                        <=> ( /\ l.pc = "pv_commit"
                              /\ l.called_ledger
                              /\ resp'[ctx].code = 200 ) )
              /\ ( /\ InProcessVote(ctx)
                   /\ LocNext(ctx) # l
                   /\ LocNext(ctx).pc \in VotePcs )
                 => votes' = votes]_vars

\* C33 happens: a submission went past the raising has_voted call, its ledger
\* vote and its commit succeeded, and its row is stored.
C33_Witness ==
    /\ resp["http"].op = "vote"
    /\ resp["http"].code = 200
    /\ HasVoted(vote_neo_client, 1, resp["http"].voter) = "AttributeError"
    /\ PairRows(resp["http"].pid, resp["http"].voter) # {}

\* C32: the vote calls on the backend's simulation client are serialised: two
\* calls for the same remote id and the same voter never both return
\* successfully (both callers past neo_client.vote, at their commit), and for
\* every record the client holds, yes_votes + no_votes is the number of votes
\* the client accepted for it.
C32_LedgerCallsSerialised ==
    /\ ~( /\ http.pc = "pv_commit"
          /\ agent.pc = "pv_commit"
          /\ http.voter = agent.voter
          /\ RemoteId(http.pid, http.cache[http.pid])
                = RemoteId(agent.pid, agent.cache[agent.pid]) )
    /\ \A rid \in ProposalIds :
          vote_neo_client.simulated_proposals[rid].exists =>
              Sum(vote_neo_client.simulated_proposals[rid])
                 = Cardinality({k \in vote_neo_client.simulated_votes :
                                   k.proposal_id = rid})

\* C36: two distinct proposals of the store never resolve to the same ledger
\* id (on_chain_id, or id without one), and a voter's first vote on an active
\* proposal (the pair has no row) is never refused by the ledger, whichever
\* client created the proposals and whether or not the process was started
\* again in between.
C36_DistinctLedgerIds ==
    /\ \A p, q \in ProposalIds :
          (p # q /\ Exists(p) /\ Exists(q)) =>
              RemoteId(p, proposals[p]) # RemoteId(q, proposals[q])
    /\ ~( /\ resp["http"].op = "vote"
          /\ resp["http"].detail = "ledger_error"
          /\ PairRows(resp["http"].pid, resp["http"].voter) = {} )

\* C31: once shutdown_event has run, both background loops have been
\* signalled to stop: the agent's stop event is set and the listener's
\* is_running flag is cleared, so that neither starts another tick.
C31_ShutdownSignalsBothLoops ==
    service.shutdown => (agent.stop_event /\ ~service.is_running)

\* C37: of the coroutines of the listener's start() that are in the polling
\* loop (suspended between two polls), at most one has polled since
\* is_running was last set, whatever the sequence of start() and stop() calls.
C37_AtMostOnePollingLoop ==
    Cardinality({k \in service.polled : service.tasks[k] = "sleep"}) <= 1

\* C38: when the last call on the synthetic agent was start() and it has
\* returned, the agent's loop thread is running and its stop event is not set.
C38_StartLeavesRunningLoop ==
    service.last_call = "agent.start" =>
        (agent.pc # "exited" /\ ~agent.stop_event)

\* C39: while the agent runs, every active proposal whose deadline has not
\* passed and whose stored tally sum is below max_votes_per_proposal
\* eventually has one more Vote row of a synthetic address, also after a
\* commit has failed once the ledger had recorded the vote.
SyntheticRows(p) == {v \in VotesOf(p) : v.voter_address[1] = p}
C39_AgentProgress ==
    \A p \in ProposalIds : \A n \in 0..MaxVotesPerProposal :
        ( /\ proposals[p].status = "active"
          /\ now <= proposals[p].deadline
          /\ Sum(proposals[p]) < MaxVotesPerProposal
          /\ Cardinality(SyntheticRows(p)) = n )
        ~> (Cardinality(SyntheticRows(p)) > n)

====
